---- MODULE Spec2Model ----
(***************************************************************************)
(* Donation pipeline of luminex: the Stream Listener                       *)
(* (SdsListenerService.handleEvent / handleDonationEvent), the Ledger      *)
(* Watcher (BlockchainService.processDonationConfirmation), the Aggregate  *)
(* Updater (updateCampaignTotals) and the Reconciler (runReconciliation),  *)
(* all writing to one persistent store.  Every handler is split at the     *)
(* awaits where another handler can run in between.                        *)
(***************************************************************************)
EXTENDS Integers, Sequences, FiniteSets, TLC

(* ---------------- bounds of the model ---------------- *)
\* handler invocations in all: stream events delivered, ledger notifications
\* delivered and reconciliation runs started
MaxInputs == 3
\* clock ticks the model lets pass
MaxTicks == 1
\* milliseconds per clock tick
TickMs == 400000
\* ledger receipt queries that may throw
MaxRpcErrors == 1
\* target amount of the campaign
TargetAmount == 2

(* ---------------- program constants ---------------- *)
OrphanTimeoutMs == 300000

\* cap of the model on state.reconnectAttempts
AttemptsCap == 12
\* connections the Stream Listener opens
MaxOpens == 2
\* keep-alive probes sent without an answer
MaxUnanswered == 3
\* calls of subscribeToStream and unsubscribeFromStream
MaxCalls == 2
\* milliseconds per tick of the hub's clock
HubTickMs == 30000
\* ticks of the hub's clock
MaxHubTicks == 4
\* broker messages the hub relays
MaxBroadcasts == 1
\* viewer connections and control messages the hub handles
MaxControl == 4
\* rows of the Withdrawal table
MaxWithdrawals == 2
\* FundsWithdrawn notifications delivered
MaxNotices == 2

(* ---------------- program constants ---------------- *)
MaxReconnectAttempts == 10
PingIntervalMs == 30000
ClientTimeoutMs == 60000

(* ---------------- input universes ---------------- *)
Streams == {"s1", "s2"}
\* viewer connections, numbered in the order they arrive
Viewers == {1, 2}
\* channel names a viewer may subscribe to
Channels == {"donations", "campaign_updates", "campaign:c1", "*"}
\* the messages the pipeline publishes on the two broker channels
HubEvents ==
  { [channel |-> "donations", type |-> "donation", campaignId |-> "c1"],
    [channel |-> "campaign_updates", type |-> "campaign_update",
     campaignId |-> "c1"] }
Tx == {"h1", "h2"}
Donors == {"d1", "d2"}
EventIds == {"e1", "e2", "e3"}
SdsProcs == {1, 2}
LwProcs == {1, 2}
RcProcs == {1, 2}

\* the donation a transaction carries on the ledger; the stream announces
\* the same donor and amount for it
TxDonor(h) == IF h = "h1" THEN "d1" ELSE "d1"
TxAmount(h) == IF h = "h1" THEN 1 ELSE 2
\* payload.txHash of the stream event with identifier e
EvTx(e) == IF e \in {"e3", "e5"} THEN "h2" ELSE "h1"
\* stream events whose payload or campaign reference is not acceptable
BadEventIds == {"e4", "e5"}
AllEventIds == EventIds \cup BadEventIds
\* the fields of the payload that handleDonationEvent looks at
Payload(e) ==
  [version |-> IF e = "e4" THEN "v2" ELSE "v1",
   txHash |-> EvTx(e),
   campaignOnChainId |-> IF e = "e5" THEN "c9" ELSE "c1"]
\* onChainId of the campaigns in the local store
OnChainIds == {"c1"}

Terminal == {"CONFIRMED", "FAILED", "ORPHANED"}

\* withdrawal records, recipient addresses as they arrive, amounts
WithdrawalIds == 1..MaxWithdrawals
Addresses == {"0xAb", "0xCd"}
Amounts == {1, 2}
NoWithdrawal == [status |-> "NONE", campaign |-> "", toAddress |-> "", amount |-> 0]
\* String.prototype.toLowerCase on an address
ToLowerCase(a) == IF a = "0xAb" THEN "0xab" ELSE IF a = "0xCd" THEN "0xcd" ELSE a

VARIABLES
  donations,    \* Donation table: sequence of rows, the index is the row id
  campaign,     \* Campaign row: currentAmount, donorCount, status
  donor,        \* Donor table keyed by address
  sdsEvents,    \* SdsEvent table keyed by eventId
  feeds,        \* length of the recent-donation lists (global, campaign)
  leaderboard,  \* sorted-set scores (global, campaign) per donor
  published,    \* messages published per broker channel
  ledger,       \* settlement state of each transaction on the chain
  now,          \* Date.now()
  sds,          \* in-flight handleEvent calls
  lw,           \* in-flight processDonationConfirmation calls
  rc,           \* in-flight runReconciliation calls
  delivered,    \* stream events delivered so far
  notified,     \* ledger notifications delivered so far
  sweeps,       \* reconciliation runs started so far
  limit,        \* handlers of each component that may be in flight at once
  lwApplied,    \* updateCampaignTotals calls made by the watcher, per hash
  rcApplied,    \* updateCampaignTotals calls made by the reconciler, per hash
  completions,  \* executions of the 'reached target' write
  rpcErrors,    \* receipt queries that threw
  withdrawals,  \* Withdrawal table: id -> status, toAddress, amount
  notice,       \* FundsWithdrawn notifications handled so far, and the last one
  \* the Stream Listener's connection
  ws,                    \* readyState of this.ws, "null" before the first connect
  state,                 \* connected, reconnectAttempts, subscribedStreams
  reconnectTimer,        \* a reconnect timeout is armed
  heartbeatTimer,        \* the heartbeat interval is running
  pendingSubscriptions,  \* streams queued while not connected
  caller,                \* who awaits the connect() in progress
  requests,              \* subscribe / unsubscribe requests sent on this socket
  resubscribed,          \* what the last open handler found to resubscribe
  gaveUp,                \* 'maxReconnectAttemptsReached' emitted so far
  unanswered,            \* probes sent since the peer last answered
  peer,                  \* whether the stream peer still answers
  opens,                 \* connections opened so far
  calls,                 \* subscribeToStream / unsubscribeFromStream calls so far
  startup,               \* position of startServer's connect-and-subscribe
  shutdown,              \* disconnect() has been called
  closeDue,              \* a socket dropped by disconnect() has yet to emit 'close'
  offline,               \* streams last unsubscribed while the socket was not open
  \* the Fan-out Hub
  clients,      \* client registry: id -> subscribedStreams, lastPing
  socket,       \* readyState of each viewer's socket
  hubNow,       \* Date.now() of the hub
  nextPingAt,   \* when the ping interval fires next
  got,          \* 'event' messages sent to each viewer
  outstanding,  \* viewers with a ping sent and not yet answered
  responsive,   \* viewers that still answer pings
  survived,     \* ping rounds a viewer passed since its last pong
  broadcasts,   \* broker messages relayed so far
  relayed,      \* the broker message relayed last
  skipped,      \* viewers whose socket was closing or closed at the last relay
  terminated,   \* viewers the ping check has terminated
  control       \* connections and control messages handled so far

listener == <<ws, state, reconnectTimer, heartbeatTimer, pendingSubscriptions,
              caller, requests, resubscribed, gaveUp, unanswered, peer, opens,
              calls, startup, shutdown, closeDue, offline>>

hub == <<clients, socket, hubNow, nextPingAt, got, outstanding, responsive,
         survived, broadcasts, relayed, skipped, terminated, control>>

vars == <<donations, campaign, donor, sdsEvents, feeds, leaderboard, published,
          ledger, now, sds, lw, rc, delivered, notified, lwApplied, rcApplied,
          completions, rpcErrors, sweeps, limit, withdrawals, notice,
          listener, hub>>

pipeline == <<donations, campaign, donor, sdsEvents, feeds, leaderboard,
              published, ledger, now, sds, lw, rc, delivered, notified,
              lwApplied, rcApplied, completions, rpcErrors, sweeps, limit,
              withdrawals, notice>>

payout == <<withdrawals, notice>>

store == <<donations, campaign, donor, sdsEvents>>
cache == <<feeds, leaderboard, published>>
env == <<ledger, now>>
hist == <<delivered, notified, lwApplied, rcApplied, completions, rpcErrors,
          sweeps, limit>>

IdleSds == [pc |-> "idle", ev |-> "-"]
IdleLw == [pc |-> "idle", tx |-> "-", id |-> 0, foundStatus |-> "-"]
\* afterHandlers notes whether the run began with no stream or ledger handler
\* in flight
IdleRc == [pc |-> "idle", pendingDonations |-> <<>>, i |-> 0, receipt |-> "-",
           afterHandlers |-> FALSE]

(* ---------------- store helpers ---------------- *)
\* prisma.donation.findUnique({ where: { txHash } }): row id or 0
RowsWith(h) == {i \in DOMAIN donations : donations[i].txHash = h}
Min(S) == CHOOSE x \in S : \A y \in S : x <= y
FindUnique(h) == IF RowsWith(h) = {} THEN 0 ELSE Min(RowsWith(h))

\* the unique index on Donation.txHash rejects a second row for the hash
DonationCreateThrows(h) == RowsWith(h) # {}

\* the unique key on SdsEvent.eventId rejects a second record for the id
SdsEventCreateThrows(e) == sdsEvents[e].recorded

NewRow(h, st) ==
  [txHash |-> h, donor |-> TxDonor(h), amount |-> TxAmount(h),
   status |-> st, createdAt |-> now]

\* parseFloat of the amount string; every amount of the model is far below
\* 2^53, where the conversion is exact
ParseFloat(a) == a

\* the concurrency the model explores: how many calls of handleEvent, of
\* processDonationConfirmation and of runReconciliation overlap
Scenarios ==
  { [sds |-> 2, lw |-> 1, rc |-> 0],
    [sds |-> 1, lw |-> 1, rc |-> 1],
    [sds |-> 0, lw |-> 2, rc |-> 0],
    [sds |-> 1, lw |-> 0, rc |-> 2] }

\* the campaign as it is created, and the empty Donor table
NewCampaign == [currentAmount |-> 0, donorCount |-> 0, status |-> "ACTIVE",
                targetAmount |-> TargetAmount]
NoDonors == [d \in Donors |-> [totalDonated |-> 0, donationCount |-> 0]]

\* SdsListenerService as constructed
ListenerInit ==
  /\ ws = "null"
  /\ state = [connected |-> FALSE, reconnectAttempts |-> 0,
              subscribedStreams |-> {}]
  /\ reconnectTimer = FALSE
  /\ heartbeatTimer = FALSE
  /\ pendingSubscriptions = {}
  /\ caller = "-"
  /\ requests = [subscribe |-> {}, unsubscribe |-> {}]
  /\ resubscribed = [previously |-> {}, queued |-> {}]
  /\ gaveUp = 0
  /\ unanswered = 0
  /\ peer = "alive"
  /\ opens = 0
  /\ calls = 0
  /\ startup = "idle"
  /\ shutdown = FALSE
  /\ closeDue = FALSE
  /\ offline = {}

\* WebSocketHandler after initialize()
HubInit ==
  /\ clients = << >>
  /\ socket = [v \in Viewers |-> "NONE"]
  /\ hubNow = 0
  /\ nextPingAt = PingIntervalMs
  /\ got = [v \in Viewers |-> 0]
  /\ outstanding = {}
  /\ responsive = Viewers
  /\ survived = [v \in Viewers |-> 0]
  /\ broadcasts = 0
  /\ relayed = [channel |-> "-", type |-> "-", campaignId |-> "-"]
  /\ skipped = {}
  /\ terminated = {}
  /\ control = 0

\* everything but the Donation table and the concurrency scenario
InitRest ==
  /\ ListenerInit
  /\ HubInit
  /\ campaign = NewCampaign
  /\ donor = NoDonors
  /\ sdsEvents = [e \in AllEventIds |->
                    [recorded |-> FALSE, processed |-> FALSE,
                     processingError |-> "", retryCount |-> 0]]
  /\ feeds = [global |-> 0, campaign |-> 0]
  /\ leaderboard = [global |-> [d \in Donors |-> 0],
                    campaign |-> [d \in Donors |-> 0]]
  /\ published = [donations |-> 0, campaign_updates |-> 0]
  /\ ledger = [h \in Tx |-> "none"]
  /\ now = 0
  /\ sds = [p \in SdsProcs |-> IdleSds]
  /\ lw = [p \in LwProcs |-> IdleLw]
  /\ rc = [p \in RcProcs |-> IdleRc]
  /\ delivered = 0
  /\ notified = 0
  /\ sweeps = 0
  /\ lwApplied = [h \in Tx |-> 0]
  /\ rcApplied = [h \in Tx |-> 0]
  /\ completions = 0
  /\ withdrawals = [i \in WithdrawalIds |-> NoWithdrawal]
  /\ notice = [count |-> 0, onChainId |-> "", to |-> "", amount |-> 0]
  /\ rpcErrors = 0

Init ==
  /\ limit \in Scenarios
  /\ donations = <<>>
  /\ InitRest

(* ---------------- environment ---------------- *)
\* the chain settles a transaction, successfully or not
LedgerSettle(h, outcome) ==
  /\ ledger[h] = "none"
  /\ ledger' = [ledger EXCEPT ![h] = outcome]
  /\ UNCHANGED <<listener, hub, payout, store, cache, now, sds, lw, rc, hist>>

Tick ==
  /\ now < MaxTicks * TickMs
  /\ now' = now + TickMs
  /\ UNCHANGED <<listener, hub, payout, store, cache, ledger, sds, lw, rc, hist>>

(* ---------------- Stream Listener ---------------- *)
FreeSlot(f, P) == Min({p \in P : f[p].pc = "idle"})

\* prisma.sdsEvent.update in the catch block of handleEvent
RecordError(e, msg) ==
  [sdsEvents EXCEPT ![e].processingError = msg, ![e].retryCount = @ + 1]

\* handleEvent up to the first store read of handleDonationEvent: the raw
\* event is recorded; when the record is rejected the catch block notes the
\* error and the event is dropped
SdsStartSwallow(p, e) ==
  /\ sds[p].pc = "idle" /\ p = FreeSlot(sds, SdsProcs) /\ p <= limit.sds
  /\ delivered + notified + sweeps < MaxInputs
  /\ delivered' = delivered + 1
  /\ sdsEvents' = [sdsEvents EXCEPT ![e].recorded = TRUE]
  /\ sds' = [sds EXCEPT ![p] = [pc |-> "find", ev |-> e]]
  /\ UNCHANGED <<listener, hub, payout, donations, campaign, donor, cache, env, lw, rc,
                 notified, lwApplied, rcApplied, completions, rpcErrors, sweeps,
                 limit>>

SdsStart(p, e) ==
  /\ sds[p].pc = "idle" /\ p = FreeSlot(sds, SdsProcs) /\ p <= limit.sds
  /\ delivered + notified + sweeps < MaxInputs
  /\ delivered' = delivered + 1
  /\ IF SdsEventCreateThrows(e)
       THEN /\ sdsEvents' = RecordError(e, "P2002 eventId")
            /\ sds' = sds
       ELSE /\ sdsEvents' = [sdsEvents EXCEPT ![e].recorded = TRUE]
            /\ sds' = [sds EXCEPT ![p] = [pc |-> "find", ev |-> e]]
  /\ UNCHANGED <<listener, hub, payout, donations, campaign, donor, cache, env, lw, rc,
                 notified, lwApplied, rcApplied, completions, rpcErrors, sweeps,
                 limit>>

\* DonationEventSchema.safeParse(event.payload).success
SafeParseAny(e) == TRUE

SafeParse(e) ==
  /\ Payload(e).version = "v1"
  /\ Payload(e).txHash \in Tx

\* prisma.campaign.findUnique({ onChainId }) returns a row
CampaignFound(e) == Payload(e).campaignOnChainId \in OnChainIds

\* the validation, the duplicate check and the campaign lookup of
\* handleDonationEvent: each of them can end the handler with a return
SdsFind(p) ==
  /\ sds[p].pc = "find"
  /\ IF \/ ~SafeParse(sds[p].ev)
        \/ FindUnique(Payload(sds[p].ev).txHash) # 0
        \/ ~CampaignFound(sds[p].ev)
       THEN /\ sdsEvents' = [sdsEvents EXCEPT ![sds[p].ev].processed = TRUE]
            /\ sds' = [sds EXCEPT ![p] = IdleSds]
       ELSE /\ sdsEvents' = sdsEvents
            /\ sds' = [sds EXCEPT ![p].pc = "create"]
  /\ UNCHANGED <<listener, hub, payout, donations, campaign, donor, cache, env, lw, rc, hist>>

\* prisma.donation.create with status PENDING
SdsCreateNoIndex(p) ==
  /\ sds[p].pc = "create"
  /\ donations' = Append(donations, NewRow(EvTx(sds[p].ev), "PENDING"))
  /\ sdsEvents' = sdsEvents
  /\ sds' = [sds EXCEPT ![p].pc = "donor"]
  /\ UNCHANGED <<listener, hub, payout, campaign, donor, cache, env, lw, rc, hist>>

SdsCreate(p) ==
  /\ sds[p].pc = "create"
  /\ IF DonationCreateThrows(EvTx(sds[p].ev))
       THEN /\ donations' = donations
            /\ sdsEvents' = RecordError(sds[p].ev, "P2002 txHash")
            /\ sds' = [sds EXCEPT ![p] = IdleSds]
       ELSE /\ donations' = Append(donations, NewRow(EvTx(sds[p].ev), "PENDING"))
            /\ sdsEvents' = sdsEvents
            /\ sds' = [sds EXCEPT ![p].pc = "donor"]
  /\ UNCHANGED <<listener, hub, payout, campaign, donor, cache, env, lw, rc, hist>>

\* what follows the create in handleDonationEvent: prisma.donor.upsert
\* (create-or-increment), the feed pushes, the leaderboard increments, the
\* publish on 'donations', and the processedAt mark that ends handleEvent
DonorUpsertOn(t, h) ==
  [t EXCEPT ![TxDonor(h)] =
     [totalDonated |-> @.totalDonated + TxAmount(h),
      donationCount |-> @.donationCount + 1]]

DonorUpsert(h) == DonorUpsertOn(donor, h)

IncrementLeaderboard(board, h) ==
  [board EXCEPT ![TxDonor(h)] = @ + ParseFloat(TxAmount(h))]

SdsDonor(p) ==
  /\ sds[p].pc = "donor"
  /\ LET h == EvTx(sds[p].ev) IN
       /\ donor' = DonorUpsert(h)
       /\ feeds' = [global |-> feeds.global + 1, campaign |-> feeds.campaign + 1]
       /\ leaderboard' =
            [global |-> IncrementLeaderboard(leaderboard.global, h),
             campaign |-> IncrementLeaderboard(leaderboard.campaign, h)]
  /\ published' = [published EXCEPT !.donations = @ + 1]
  /\ sdsEvents' = [sdsEvents EXCEPT ![sds[p].ev].processed = TRUE]
  /\ sds' = [sds EXCEPT ![p] = IdleSds]
  /\ UNCHANGED <<listener, hub, payout, donations, campaign, env, lw, rc, hist>>

(* ---------------- Aggregate Updater ---------------- *)
\* the increment of updateCampaignTotals
CampaignIncrement(c, amt) ==
  [c EXCEPT !.currentAmount = @ + amt, !.donorCount = @ + 1]

\* the threshold test made on the row the increment returned
ReachedTarget(c) == c.currentAmount >= c.targetAmount

\* updateCampaignTotals: the increment, and the 'reached target' write when
\* the incremented row is at or over the target
UpdateCampaignTotals(c, amt) ==
  IF ReachedTarget(CampaignIncrement(c, amt))
    THEN [CampaignIncrement(c, amt) EXCEPT !.status = "COMPLETED"]
    ELSE CampaignIncrement(c, amt)

\* executions of the 'reached target' write in one updateCampaignTotals
CompletionWrites(c, amt) ==
  IF ReachedTarget(CampaignIncrement(c, amt)) THEN 1 ELSE 0

(* ---------------- Ledger Watcher ---------------- *)
\* the DonationReceived callback up to the store reads of
\* processDonationConfirmation
LwStart(p, h) ==
  /\ lw[p].pc = "idle" /\ p = FreeSlot(lw, LwProcs) /\ p <= limit.lw
  /\ ledger[h] = "success"
  /\ delivered + notified + sweeps < MaxInputs
  /\ notified' = notified + 1
  /\ LET id == FindUnique(h) IN
       lw' = [lw EXCEPT ![p] =
                IF id = 0
                  THEN [pc |-> "create", tx |-> h, id |-> 0, foundStatus |-> "-"]
                  ELSE [pc |-> "update", tx |-> h, id |-> id,
                        foundStatus |-> donations[id].status]]
  /\ UNCHANGED <<listener, hub, payout, store, cache, env, sds, rc, delivered, lwApplied, rcApplied,
                 completions, rpcErrors, sweeps,
                 limit>>

\* prisma.donation.create with status CONFIRMED; a rejected create leaves
\* processDonationConfirmation through the callback's catch
LwCreate(p) ==
  /\ lw[p].pc = "create"
  /\ IF DonationCreateThrows(lw[p].tx)
       THEN /\ donations' = donations
            /\ lw' = [lw EXCEPT ![p] = IdleLw]
       ELSE /\ donations' = Append(donations, NewRow(lw[p].tx, "CONFIRMED"))
            /\ lw' = [lw EXCEPT ![p].pc = "totals", ![p].id = Len(donations) + 1]
  /\ UNCHANGED <<listener, hub, payout, campaign, donor, sdsEvents, cache, env, sds, rc, hist>>

\* prisma.donation.update by id to CONFIRMED
LwUpdate(p) ==
  /\ lw[p].pc = "update"
  /\ donations' = [donations EXCEPT ![lw[p].id].status = "CONFIRMED"]
  /\ lw' = [lw EXCEPT ![p].pc = "totals"]
  /\ UNCHANGED <<listener, hub, payout, campaign, donor, sdsEvents, cache, env, sds, rc, hist>>

\* updateCampaignTotals(campaignId, event.amount)
LwTotals(p) ==
  /\ lw[p].pc = "totals"
  /\ campaign' = UpdateCampaignTotals(campaign, TxAmount(lw[p].tx))
  /\ completions' = completions + CompletionWrites(campaign, TxAmount(lw[p].tx))
  /\ published' = [published EXCEPT !.campaign_updates = @ + 1]
  /\ lwApplied' = [lwApplied EXCEPT ![lw[p].tx] = @ + 1]
  /\ lw' = [lw EXCEPT ![p] = IdleLw]
  /\ UNCHANGED <<listener, hub, payout, donations, donor, sdsEvents, feeds, leaderboard, env, sds, rc,
                 delivered, notified, rcApplied, rpcErrors, sweeps, limit>>

\* handleCampaignCompleted: the ledger's own completion notification
LwCampaignCompleted ==
  /\ campaign.status # "COMPLETED"
  /\ campaign' = [campaign EXCEPT !.status = "COMPLETED"]
  /\ UNCHANGED <<listener, hub, payout, donations, donor, sdsEvents, cache, env, sds, lw, rc, hist>>

(* ---------------- Reconciler ---------------- *)
\* createdAt < Date.now() - orphanTimeoutMs
OlderThanTimeout(row) == row.createdAt < now - OrphanTimeoutMs

\* the where clause of the findMany of runReconciliation
SelectedAtAnyAge(row) == row.status = "PENDING"

Selected(row) == row.status = "PENDING" /\ OlderThanTimeout(row)

\* the rows the findMany returns, as the sweep keeps them: id and amount
RECURSIVE FindManyPending(_)
FindManyPending(n) ==
  IF n = 0 THEN <<>>
  ELSE IF Selected(donations[n])
         THEN Append(FindManyPending(n - 1),
                     [id |-> n, txHash |-> donations[n].txHash,
                      amount |-> donations[n].amount])
         ELSE FindManyPending(n - 1)

\* the donation the for loop of the sweep is at
Current(p) == rc[p].pendingDonations[rc[p].i]

\* the loop moves on to the next selected donation
NextItem(r) == [r EXCEPT !.pc = "loop", !.i = @ + 1, !.receipt = "-"]

\* runReconciliation: the findMany of the PENDING rows past the timeout
RcStart(p) ==
  /\ rc[p].pc = "idle" /\ p = FreeSlot(rc, RcProcs) /\ p <= limit.rc
  /\ delivered + notified + sweeps < MaxInputs
  /\ sweeps' = sweeps + 1
  /\ rc' = [rc EXCEPT ![p] =
              [pc |-> "loop", pendingDonations |-> FindManyPending(Len(donations)),
               i |-> 1, receipt |-> "-",
               afterHandlers |-> (\A q \in SdsProcs : sds[q].pc = "idle")
                                 /\ (\A q \in LwProcs : lw[q].pc = "idle")]]
  /\ UNCHANGED <<listener, hub, payout, store, cache, env, sds, lw, delivered, notified, lwApplied,
                 rcApplied, completions, rpcErrors, limit>>

\* the end of the for loop: 'Reconciliation run completed'
RcEnd(p) ==
  /\ rc[p].pc = "loop" /\ rc[p].i > Len(rc[p].pendingDonations)
  /\ rc' = [rc EXCEPT ![p] = IdleRc]
  /\ UNCHANGED <<listener, hub, payout, store, cache, env, sds, lw, hist>>

\* provider.getTransactionReceipt for the next selected donation
RcReceipt(p) ==
  /\ rc[p].pc = "loop" /\ rc[p].i <= Len(rc[p].pendingDonations)
  /\ rc' = [rc EXCEPT ![p].pc = "apply", ![p].receipt = ledger[Current(p).txHash]]
  /\ UNCHANGED <<listener, hub, payout, store, cache, env, sds, lw, hist>>

\* the receipt query throws: the catch logs and the loop goes on
RcReceiptThrowsAborts(p) ==
  /\ rc[p].pc = "loop" /\ rc[p].i <= Len(rc[p].pendingDonations)
  /\ rpcErrors < MaxRpcErrors
  /\ rpcErrors' = rpcErrors + 1
  /\ rc' = [rc EXCEPT ![p] = IdleRc]
  /\ UNCHANGED <<listener, hub, payout, store, cache, env, sds, lw, delivered, notified, lwApplied,
                 rcApplied, completions, sweeps, limit>>

RcReceiptThrows(p) ==
  /\ rc[p].pc = "loop" /\ rc[p].i <= Len(rc[p].pendingDonations)
  /\ rpcErrors < MaxRpcErrors
  /\ rpcErrors' = rpcErrors + 1
  /\ rc' = [rc EXCEPT ![p] = NextItem(@)]
  /\ UNCHANGED <<listener, hub, payout, store, cache, env, sds, lw, delivered, notified, lwApplied,
                 rcApplied, completions, sweeps, limit>>

\* the status the sweep writes for a receipt
StatusFor(receipt) ==
  CASE receipt = "success" -> "CONFIRMED"
    [] receipt = "failed" -> "FAILED"
    [] OTHER -> "ORPHANED"

\* prisma.donation.update by id with the status the receipt decides
RcApplyAlwaysTotals(p) ==
  /\ rc[p].pc = "apply"
  /\ donations' = [donations EXCEPT
                     ![Current(p).id].status = StatusFor(rc[p].receipt)]
  /\ rc' = [rc EXCEPT ![p].pc = "totals"]
  /\ UNCHANGED <<listener, hub, payout, campaign, donor, sdsEvents, cache, env, sds, lw, hist>>

RcApply(p) ==
  /\ rc[p].pc = "apply"
  /\ donations' = [donations EXCEPT
                     ![Current(p).id].status = StatusFor(rc[p].receipt)]
  /\ rc' = [rc EXCEPT ![p] = IF rc[p].receipt = "success"
                               THEN [@ EXCEPT !.pc = "totals"]
                               ELSE NextItem(@)]
  /\ UNCHANGED <<listener, hub, payout, campaign, donor, sdsEvents, cache, env, sds, lw, hist>>

\* updateCampaignTotals(campaignId, donation.amount)
RcTotals(p) ==
  /\ rc[p].pc = "totals"
  /\ campaign' = UpdateCampaignTotals(campaign, Current(p).amount)
  /\ completions' = completions + CompletionWrites(campaign, Current(p).amount)
  /\ rcApplied' = [rcApplied EXCEPT ![Current(p).txHash] = @ + 1]
  /\ published' = [published EXCEPT !.campaign_updates = @ + 1]
  /\ rc' = [rc EXCEPT ![p] = NextItem(@)]
  /\ UNCHANGED <<listener, hub, payout, donations, donor, sdsEvents, feeds, leaderboard, env, sds, lw,
                 delivered, notified, lwApplied, rpcErrors, sweeps, limit>>

(* ---------------- specification ---------------- *)
Next ==
  \/ \E h \in Tx, o \in {"success", "failed"} : LedgerSettle(h, o)
  \/ Tick
  \/ \E p \in SdsProcs, e \in EventIds : SdsStart(p, e)
  \/ \E p \in SdsProcs : SdsFind(p)
  \/ \E p \in SdsProcs : SdsCreate(p)
  \/ \E p \in SdsProcs : SdsDonor(p)
  \/ \E p \in LwProcs, h \in Tx : LwStart(p, h)
  \/ \E p \in LwProcs : LwCreate(p)
  \/ \E p \in LwProcs : LwUpdate(p)
  \/ \E p \in LwProcs : LwTotals(p)
  \/ LwCampaignCompleted
  \/ \E p \in RcProcs : RcStart(p)
  \/ \E p \in RcProcs : RcEnd(p)
  \/ \E p \in RcProcs : RcReceipt(p)
  \/ \E p \in RcProcs : RcReceiptThrows(p)
  \/ \E p \in RcProcs : RcApply(p)
  \/ \E p \in RcProcs : RcTotals(p)

Spec == Init /\ [][Next]_vars

(* ---------------- withdrawals ---------------- *)
RECURSIVE SumWithdrawals(_)
\* the _sum of amount over the records whose ids are in S
SumWithdrawals(S) ==
  IF S = {} THEN 0
  ELSE LET i == CHOOSE x \in S : TRUE IN
         withdrawals[i].amount + SumWithdrawals(S \ {i})

\* currentAmount less the PENDING and PROCESSING withdrawals of the campaign
AvailableAmount ==
  campaign.currentAmount
    - SumWithdrawals({i \in WithdrawalIds :
                        withdrawals[i].status \in {"PENDING", "PROCESSING"}})

\* requestWithdrawal: a PENDING record with the address in lower case
RequestWithdrawal(to, amt) ==
  /\ \E i \in WithdrawalIds : withdrawals[i].status = "NONE"
  /\ amt <= AvailableAmount
  /\ LET i == Min({j \in WithdrawalIds : withdrawals[j].status = "NONE"}) IN
       withdrawals' =
         [withdrawals EXCEPT ![i] =
            [status |-> "PENDING", campaign |-> "c1",
             toAddress |-> ToLowerCase(to), amount |-> amt]]
  /\ UNCHANGED <<donations, campaign, donor, sdsEvents, cache, env, sds, lw,
                 rc, hist, notice, listener, hub>>

\* approveWithdrawal: PENDING becomes PROCESSING
ApproveWithdrawal(i) ==
  /\ withdrawals[i].status = "PENDING"
  /\ withdrawals' = [withdrawals EXCEPT ![i].status = "PROCESSING"]
  /\ UNCHANGED <<donations, campaign, donor, sdsEvents, cache, env, sds, lw,
                 rc, hist, notice, listener, hub>>

\* cancelWithdrawal: a PENDING or PROCESSING record becomes CANCELLED
CancelWithdrawal(i) ==
  /\ withdrawals[i].status \in {"PENDING", "PROCESSING"}
  /\ withdrawals' = [withdrawals EXCEPT ![i].status = "CANCELLED"]
  /\ UNCHANGED <<donations, campaign, donor, sdsEvents, cache, env, sds, lw,
                 rc, hist, notice, listener, hub>>

\* the where clause of the updateMany of handleWithdrawal
WithdrawalMatches(w, onChainId, to, amt) ==
  /\ w.campaign = onChainId
  /\ w.toAddress = ToLowerCase(to)
  /\ w.amount = amt
  /\ w.status = "PROCESSING"

\* handleWithdrawal: nothing when the campaign is unknown, else updateMany
\* sets every matching record COMPLETED
HandleWithdrawal(onChainId, to, amt) ==
  /\ notice.count < MaxNotices
  /\ notice' = [count |-> notice.count + 1, onChainId |-> onChainId,
                to |-> to, amount |-> amt]
  /\ withdrawals' =
       IF onChainId \notin OnChainIds
         THEN withdrawals
         ELSE [i \in WithdrawalIds |->
                 IF WithdrawalMatches(withdrawals[i], onChainId, to, amt)
                   THEN [withdrawals[i] EXCEPT !.status = "COMPLETED"]
                   ELSE withdrawals[i]]
  /\ UNCHANGED <<donations, campaign, donor, sdsEvents, cache, env, sds, lw,
                 rc, hist, listener, hub>>

InitWithdrawal ==
  /\ limit = [sds |-> 0, lw |-> 1, rc |-> 0]
  /\ donations = <<>>
  /\ InitRest

NextWithdrawal ==
  \/ \E h \in Tx : LedgerSettle(h, "success")
  \/ \E p \in LwProcs, h \in Tx : LwStart(p, h)
  \/ \E p \in LwProcs : LwCreate(p)
  \/ \E p \in LwProcs : LwUpdate(p)
  \/ \E p \in LwProcs : LwTotals(p)
  \/ \E to \in Addresses, amt \in Amounts : RequestWithdrawal(to, amt)
  \/ \E i \in WithdrawalIds : ApproveWithdrawal(i)
  \/ \E i \in WithdrawalIds : CancelWithdrawal(i)
  \/ \E c \in {"c1", "c9"}, to \in Addresses, amt \in Amounts :
       HandleWithdrawal(c, to, amt)

SpecWithdrawal == InitWithdrawal /\ [][NextWithdrawal]_vars

(* ---------------- unacceptable announcements ---------------- *)
InitDrop ==
  /\ limit = [sds |-> 2, lw |-> 1, rc |-> 0]
  /\ donations = <<>>
  /\ InitRest

NextDrop ==
  \/ \E p \in SdsProcs, e \in AllEventIds : SdsStart(p, e)
  \/ \E p \in SdsProcs : SdsFind(p)
  \/ \E p \in SdsProcs : SdsCreate(p)
  \/ \E p \in SdsProcs : SdsDonor(p)

SpecDrop == InitDrop /\ [][NextDrop]_vars

(* ---------------- cache and broker failures ---------------- *)
\* handleDonationEvent when a feed push or a leaderboard increment rejects:
\* the donor upsert is already written, any of the four cache operations of
\* the Promise.all may have been applied, nothing is published, and the
\* catch block of handleEvent notes the error
SdsDonorCacheThrows(p, feedsDone, boardsDone) ==
  /\ sds[p].pc = "donor"
  /\ LET h == EvTx(sds[p].ev) IN
       /\ donor' = DonorUpsert(h)
       /\ feeds' = IF feedsDone
                     THEN [global |-> feeds.global + 1,
                           campaign |-> feeds.campaign + 1]
                     ELSE feeds
       /\ leaderboard' =
            IF boardsDone
              THEN [global |-> IncrementLeaderboard(leaderboard.global, h),
                    campaign |-> IncrementLeaderboard(leaderboard.campaign, h)]
              ELSE leaderboard
  /\ sdsEvents' = RecordError(sds[p].ev, "cache")
  /\ sds' = [sds EXCEPT ![p] = IdleSds]
  /\ UNCHANGED <<listener, hub, payout, donations, campaign, published, env, lw, rc,
                 hist>>

\* updateCampaignTotals when redis.publish or the cache invalidation
\* rejects: the increment is written and the call ends there; the catch of
\* the DonationReceived callback logs the error
LwTotalsPublishThrows(p) ==
  /\ lw[p].pc = "totals"
  /\ campaign' = CampaignIncrement(campaign, TxAmount(lw[p].tx))
  /\ lwApplied' = [lwApplied EXCEPT ![lw[p].tx] = @ + 1]
  /\ lw' = [lw EXCEPT ![p] = IdleLw]
  /\ UNCHANGED <<listener, hub, payout, donations, donor, sdsEvents, cache, env, sds,
                 rc, delivered, notified, rcApplied, completions, rpcErrors,
                 sweeps, limit>>

\* the same in a reconciliation run, whose per-donation catch goes on to
\* the next donation
RcTotalsPublishThrows(p) ==
  /\ rc[p].pc = "totals"
  /\ campaign' = CampaignIncrement(campaign, Current(p).amount)
  /\ rcApplied' = [rcApplied EXCEPT ![Current(p).txHash] = @ + 1]
  /\ rc' = [rc EXCEPT ![p] = NextItem(@)]
  /\ UNCHANGED <<listener, hub, payout, donations, donor, sdsEvents, cache, env, sds,
                 lw, delivered, notified, lwApplied, completions, rpcErrors,
                 sweeps, limit>>

InitBroker ==
  /\ limit = [sds |-> 1, lw |-> 1, rc |-> 1]
  /\ donations = <<>>
  /\ InitRest

NextBroker ==
  \/ Next
  \/ \E p \in SdsProcs, f, b \in BOOLEAN : SdsDonorCacheThrows(p, f, b)
  \/ \E p \in LwProcs : LwTotalsPublishThrows(p)
  \/ \E p \in RcProcs : RcTotalsPublishThrows(p)

SpecBroker == InitBroker /\ [][NextBroker]_vars

(* ---------------- missed events ---------------- *)
\* a CONFIRMED row written straight into the Donation table
InjectedRow(h) ==
  [txHash |-> h, donor |-> TxDonor(h), amount |-> TxAmount(h),
   status |-> "CONFIRMED", createdAt |-> 0]

\* the Donation tables that hold one or two such rows
InjectedStores ==
  { <<InjectedRow("h1")>>, <<InjectedRow("h2")>>,
    <<InjectedRow("h1"), InjectedRow("h2")>> }

\* the store after the rows were inserted while the ledger watcher was down
InitInjected ==
  /\ limit = [sds |-> 1, lw |-> 0, rc |-> 1]
  /\ donations \in InjectedStores
  /\ InitRest

NextInjected ==
  \/ \E h \in Tx, o \in {"success", "failed"} : LedgerSettle(h, o)
  \/ Tick
  \/ \E p \in SdsProcs, e \in EventIds : SdsStart(p, e)
  \/ \E p \in SdsProcs : SdsFind(p)
  \/ \E p \in SdsProcs : SdsCreate(p)
  \/ \E p \in SdsProcs : SdsDonor(p)
  \/ \E p \in RcProcs : RcStart(p)
  \/ \E p \in RcProcs : RcEnd(p)
  \/ \E p \in RcProcs : RcReceipt(p)
  \/ \E p \in RcProcs : RcReceiptThrows(p)
  \/ \E p \in RcProcs : RcApply(p)
  \/ \E p \in RcProcs : RcTotals(p)

SpecInjected == InitInjected /\ [][NextInjected]_vars

TypeOK ==
  /\ \A i \in DOMAIN donations : donations[i].status \in {"PENDING"} \cup Terminal
  /\ campaign.status \in {"ACTIVE", "COMPLETED"}

(* ---------------- Stream Listener connection ---------------- *)
\* the probe bookkeeping and the call count, which the connection handlers leave alone
probes == <<unanswered, peer, calls>>
\* the start-up and shut-down bookkeeping
lifecycle == <<startup, shutdown, closeDue, offline>>

\* the start-up call of connect()
Connect ==
  /\ ws = "null" /\ startup = "idle"
  /\ ws' = "CONNECTING"
  /\ caller' = "startup"
  /\ startup' = "connect"
  /\ UNCHANGED <<state, reconnectTimer, heartbeatTimer, pendingSubscriptions,
                 requests, resubscribed, gaveUp, probes, opens, shutdown,
                 closeDue, offline, pipeline, hub>>

\* the requests resubscribeToStreams sends: one for every stream of
\* state.subscribedStreams, then one for every queued stream
ResubscribeSkipsQueued(subscribed, queued) == subscribed

Resubscribe(subscribed, queued) == subscribed \cup queued

\* the 'open' handler: the attempt counter is reset, the heartbeat starts
\* and the streams are resubscribed, which empties the queue
OnOpen ==
  /\ ws = "CONNECTING" /\ opens < MaxOpens
  /\ ws' = "OPEN"
  /\ state' = [state EXCEPT !.connected = TRUE, !.reconnectAttempts = 0]
  /\ heartbeatTimer' = TRUE
  /\ requests' = [subscribe |-> Resubscribe(state.subscribedStreams,
                                            pendingSubscriptions),
                  unsubscribe |-> {}]
  /\ resubscribed' = [previously |-> state.subscribedStreams,
                      queued |-> pendingSubscriptions]
  /\ pendingSubscriptions' = {}
  /\ caller' = "-"
  /\ unanswered' = 0
  /\ peer' = "alive"
  /\ opens' = opens + 1
  /\ startup' = IF caller = "startup" THEN "subscribe" ELSE startup
  /\ offline' = {}
  /\ UNCHANGED <<reconnectTimer, gaveUp, calls, shutdown, closeDue,
                 pipeline, hub>>

\* handleDisconnect checks the attempt counter before it schedules
MayReconnect == state.reconnectAttempts < MaxReconnectAttempts

\* the connection attempt fails: the 'error' handler rejects the promise of
\* connect(), the catch of the timer callback schedules a reconnect, and the
\* socket may emit 'close' as well, which runs handleDisconnect
OnError(closeFollows) ==
  /\ ws = "CONNECTING"
  /\ ws' = "CLOSED"
  /\ caller' = "-"
  /\ reconnectTimer' = (\/ caller = "timer"
                        \/ closeFollows /\ MayReconnect
                        \/ reconnectTimer)
  /\ gaveUp' = IF closeFollows /\ ~MayReconnect THEN gaveUp + 1 ELSE gaveUp
  /\ heartbeatTimer' = IF closeFollows THEN FALSE ELSE heartbeatTimer
  /\ startup' = IF caller = "startup" THEN "failed" ELSE startup
  /\ UNCHANGED <<state, pendingSubscriptions, requests, resubscribed, probes,
                 opens, shutdown, closeDue, offline, pipeline, hub>>

\* the 'close' handler of an open socket: handleDisconnect
OnClose ==
  /\ ws = "OPEN"
  /\ ws' = "CLOSED"
  /\ state' = [state EXCEPT !.connected = FALSE]
  /\ heartbeatTimer' = FALSE
  /\ reconnectTimer' = (MayReconnect \/ reconnectTimer)
  /\ gaveUp' = IF MayReconnect THEN gaveUp ELSE gaveUp + 1
  /\ UNCHANGED <<pendingSubscriptions, caller, requests, resubscribed, probes,
                 opens, lifecycle,
                 pipeline, hub>>

\* the timeout of scheduleReconnect fires: the counter goes up and
\* connect() is called
ReconnectTimer ==
  /\ reconnectTimer /\ state.reconnectAttempts < AttemptsCap
  /\ reconnectTimer' = FALSE
  /\ state' = [state EXCEPT !.reconnectAttempts = @ + 1]
  /\ ws' = "CONNECTING"
  /\ caller' = "timer"
  /\ UNCHANGED <<heartbeatTimer, pendingSubscriptions, requests, resubscribed,
                 gaveUp, probes, opens, lifecycle,
                 pipeline, hub>>

\* the heartbeat interval fires: a ping goes out on an open socket
Heartbeat ==
  /\ heartbeatTimer /\ ws = "OPEN" /\ unanswered < MaxUnanswered
  /\ unanswered' = unanswered + 1
  /\ UNCHANGED <<ws, state, reconnectTimer, heartbeatTimer,
                 pendingSubscriptions, caller, requests, resubscribed, gaveUp,
                 peer, opens, calls, lifecycle,
                 pipeline, hub>>

\* the peer answers the probes; the listener has no handler for the answer
Pong ==
  /\ ws = "OPEN" /\ peer = "alive" /\ unanswered > 0
  /\ unanswered' = 0
  /\ UNCHANGED <<ws, state, reconnectTimer, heartbeatTimer,
                 pendingSubscriptions, caller, requests, resubscribed, gaveUp,
                 peer, opens, calls, lifecycle,
                 pipeline, hub>>

\* the peer stops answering and the socket reports nothing
PeerSilent ==
  /\ ws = "OPEN" /\ peer = "alive"
  /\ peer' = "silent"
  /\ UNCHANGED <<ws, state, reconnectTimer, heartbeatTimer,
                 pendingSubscriptions, caller, requests, resubscribed, gaveUp,
                 unanswered, opens, calls, lifecycle,
                 pipeline, hub>>

\* subscribeToStream: queued unless the socket is open
SubscribeToStream(s) ==
  /\ calls < MaxCalls
  /\ calls' = calls + 1
  /\ IF ws # "OPEN"
       THEN /\ pendingSubscriptions' = pendingSubscriptions \cup {s}
            /\ requests' = requests
       ELSE /\ pendingSubscriptions' = pendingSubscriptions
            /\ requests' = [requests EXCEPT !.subscribe = @ \cup {s}]
  /\ offline' = offline \ {s}
  /\ UNCHANGED <<ws, state, reconnectTimer, heartbeatTimer, caller,
                 resubscribed, gaveUp, unanswered, peer, opens, startup,
                 shutdown, closeDue, pipeline, hub>>

\* unsubscribeFromStream: taken off the queue unless the socket is open
UnsubscribeFromStream(s) ==
  /\ calls < MaxCalls
  /\ calls' = calls + 1
  /\ IF ws # "OPEN"
       THEN /\ pendingSubscriptions' = pendingSubscriptions \ {s}
            /\ requests' = requests
            /\ offline' = offline \cup {s}
       ELSE /\ pendingSubscriptions' = pendingSubscriptions
            /\ requests' = [requests EXCEPT !.unsubscribe = @ \cup {s}]
            /\ offline' = offline
  /\ UNCHANGED <<ws, state, reconnectTimer, heartbeatTimer, caller,
                 resubscribed, gaveUp, unanswered, peer, opens, startup,
                 shutdown, closeDue, pipeline, hub>>

\* handleMessage, case 'subscribed'
OnSubscribed(s) ==
  /\ ws = "OPEN" /\ peer = "alive" /\ s \in requests.subscribe
  /\ state' = [state EXCEPT !.subscribedStreams = @ \cup {s}]
  /\ UNCHANGED <<ws, reconnectTimer, heartbeatTimer, pendingSubscriptions,
                 caller, requests, resubscribed, gaveUp, probes, opens, lifecycle,
                 pipeline, hub>>

\* handleMessage, case 'unsubscribed'
OnUnsubscribed(s) ==
  /\ ws = "OPEN" /\ peer = "alive" /\ s \in requests.unsubscribe
  /\ state' = [state EXCEPT !.subscribedStreams = @ \ {s}]
  /\ UNCHANGED <<ws, reconnectTimer, heartbeatTimer, pendingSubscriptions,
                 caller, requests, resubscribed, gaveUp, probes, opens, lifecycle,
                 pipeline, hub>>

InitListener ==
  /\ limit = [sds |-> 1, lw |-> 1, rc |-> 1]
  /\ donations = <<>>
  /\ InitRest

NextListener ==
  \/ Connect
  \/ OnOpen
  \/ \E closeFollows \in BOOLEAN : OnError(closeFollows)
  \/ OnClose
  \/ ReconnectTimer
  \/ Heartbeat
  \/ Pong
  \/ PeerSilent
  \/ \E s \in Streams : SubscribeToStream(s)
  \/ \E s \in Streams : UnsubscribeFromStream(s)
  \/ \E s \in Streams : OnSubscribed(s)
  \/ \E s \in Streams : OnUnsubscribed(s)

SpecListener == InitListener /\ [][NextListener]_vars

\* the sdsStreamId of every campaign whose status is ACTIVE
ActiveStreams == {"s1"}

\* startServer after connect() has resolved: subscribeToAllCampaigns calls
\* subscribeToStream for the stream of every ACTIVE campaign
SubscribeToAllCampaigns ==
  /\ startup = "subscribe"
  /\ startup' = "done"
  /\ IF ws # "OPEN"
       THEN /\ pendingSubscriptions' = pendingSubscriptions \cup ActiveStreams
            /\ requests' = requests
       ELSE /\ pendingSubscriptions' = pendingSubscriptions
            /\ requests' = [requests EXCEPT !.subscribe = @ \cup ActiveStreams]
  /\ offline' = offline \ ActiveStreams
  /\ UNCHANGED <<ws, state, reconnectTimer, heartbeatTimer, caller,
                 resubscribed, gaveUp, probes, opens, shutdown, closeDue,
                 pipeline, hub>>

\* disconnect(): both timers are cleared, the socket is closed and dropped
\* with its handlers still attached, and connected becomes false
Disconnect ==
  /\ ~shutdown /\ startup # "idle"
  /\ shutdown' = TRUE
  /\ heartbeatTimer' = FALSE
  /\ reconnectTimer' = FALSE
  /\ closeDue' = (ws \in {"CONNECTING", "OPEN"})
  /\ ws' = "null"
  /\ state' = [state EXCEPT !.connected = FALSE]
  /\ UNCHANGED <<pendingSubscriptions, caller, requests, resubscribed, gaveUp,
                 probes, opens, startup, offline, pipeline, hub>>

\* the dropped socket emits 'close' (after 'error' when it was still
\* connecting, which rejects the connect() in progress): handleDisconnect
\* runs, and the catch of the timer callback schedules as well
StaleClose ==
  /\ closeDue
  /\ closeDue' = FALSE
  /\ state' = [state EXCEPT !.connected = FALSE]
  /\ heartbeatTimer' = FALSE
  /\ reconnectTimer' = (caller = "timer" \/ MayReconnect \/ reconnectTimer)
  /\ gaveUp' = IF MayReconnect THEN gaveUp ELSE gaveUp + 1
  /\ startup' = IF caller = "startup" THEN "failed" ELSE startup
  /\ caller' = "-"
  /\ UNCHANGED <<ws, pendingSubscriptions, requests, resubscribed, probes,
                 opens, shutdown, offline, pipeline, hub>>

InitLifecycle ==
  /\ limit = [sds |-> 1, lw |-> 1, rc |-> 1]
  /\ donations = <<>>
  /\ InitRest

NextLifecycle ==
  \/ Connect
  \/ OnOpen
  \/ \E closeFollows \in BOOLEAN : OnError(closeFollows)
  \/ OnClose
  \/ ReconnectTimer
  \/ SubscribeToAllCampaigns
  \/ \E s \in Streams : OnSubscribed(s)
  \/ Disconnect
  \/ StaleClose

SpecLifecycle == InitLifecycle /\ [][NextLifecycle]_vars

(* ---------------- Fan-out Hub ---------------- *)
Registered == DOMAIN clients

\* `campaign:${event.data.campaignId}`
CampaignChannel(id) == IF id = "c1" THEN "campaign:c1" ELSE "campaign:other"

\* handleConnection: the viewer is registered with an empty subscription set
HandleConnection(v) ==
  /\ socket[v] = "NONE" /\ control < MaxControl
  /\ v = Min({u \in Viewers : socket[u] = "NONE"})
  /\ control' = control + 1
  /\ socket' = [socket EXCEPT ![v] = "OPEN"]
  /\ clients' = [x \in Registered \cup {v} |->
                   IF x = v THEN [subscribedStreams |-> {}, lastPing |-> hubNow]
                            ELSE clients[x]]
  /\ UNCHANGED <<hubNow, nextPingAt, got, outstanding, responsive, survived,
                 broadcasts, relayed, skipped, terminated, pipeline, listener>>

\* handleSubscribe
HandleSubscribe(v, streams) ==
  /\ v \in Registered /\ socket[v] = "OPEN" /\ control < MaxControl
  /\ control' = control + 1
  /\ clients' = [clients EXCEPT ![v].subscribedStreams = @ \cup streams]
  /\ UNCHANGED <<socket, hubNow, nextPingAt, got, outstanding, responsive,
                 survived, broadcasts, relayed, skipped, terminated, pipeline,
                 listener>>

\* handleUnsubscribe
HandleUnsubscribe(v, streams) ==
  /\ v \in Registered /\ socket[v] = "OPEN" /\ control < MaxControl
  /\ control' = control + 1
  /\ clients' = [clients EXCEPT ![v].subscribedStreams = @ \ streams]
  /\ UNCHANGED <<socket, hubNow, nextPingAt, got, outstanding, responsive,
                 survived, broadcasts, relayed, skipped, terminated, pipeline,
                 listener>>

\* the test of broadcastToStream on one client's subscription set
Matches(subs, stream, ev) ==
  \/ stream \in subs
  \/ "*" \in subs
  \/ "donations" \in subs /\ ev.type = "donation"

\* the readyState test of sendToClient
SendsUnlessAnyClosed(v) == \A u \in Registered : socket[u] = "OPEN"

Sends(v) == socket[v] = "OPEN"

\* broadcastToStream: the 'event' messages each viewer has been sent, after
\* one pass over the registry
BroadcastToStream(g, stream, ev) ==
  [v \in Viewers |->
     IF /\ v \in Registered
        /\ Matches(clients[v].subscribedStreams, stream, ev)
        /\ Sends(v)
       THEN g[v] + 1 ELSE g[v]]

\* the type test before the second, campaign-specific broadcast
AlsoCampaignNever(ev) == FALSE

AlsoCampaign(ev) ==
  \/ ev.channel = "donations" /\ ev.type = "donation"
  \/ ev.channel = "campaign_updates" /\ ev.type = "campaign_update"

\* the registered viewers one of the two broadcasts of ev matches
Matching(ev) ==
  {v \in Registered :
     \/ Matches(clients[v].subscribedStreams, ev.channel, ev)
     \/ /\ AlsoCampaign(ev)
        /\ Matches(clients[v].subscribedStreams,
                   CampaignChannel(ev.campaignId), ev)}

\* the callbacks of subscribeToChannels: a message of the broker is
\* broadcast on its channel and on the channel of its campaign
RedisMessage(ev) ==
  /\ broadcasts < MaxBroadcasts
  /\ broadcasts' = broadcasts + 1
  /\ relayed' = ev
  /\ skipped' = {v \in Viewers : socket[v] \in {"CLOSING", "CLOSED"}}
  /\ got' = IF AlsoCampaign(ev)
              THEN BroadcastToStream(BroadcastToStream(got, ev.channel, ev),
                                     CampaignChannel(ev.campaignId), ev)
              ELSE BroadcastToStream(got, ev.channel, ev)
  /\ UNCHANGED <<clients, socket, hubNow, nextPingAt, outstanding, responsive,
                 survived, terminated, control, pipeline, listener>>

\* a viewer's socket starts to close
ViewerCloses(v) ==
  /\ socket[v] = "OPEN"
  /\ socket' = [socket EXCEPT ![v] = "CLOSING"]
  /\ UNCHANGED <<clients, hubNow, nextPingAt, got, outstanding, responsive,
                 survived, broadcasts, relayed, skipped, terminated, control,
                 pipeline, listener>>

\* the 'close' handler: the viewer leaves the registry
OnViewerClose(v) ==
  /\ v \in Registered /\ socket[v] \in {"OPEN", "CLOSING"}
  /\ socket' = [socket EXCEPT ![v] = "CLOSED"]
  /\ clients' = [x \in Registered \ {v} |-> clients[x]]
  /\ outstanding' = outstanding \ {v}
  /\ UNCHANGED <<hubNow, nextPingAt, got, responsive, survived, broadcasts,
                 relayed, skipped, terminated, control, pipeline, listener>>

\* a viewer stops answering pings; its socket reports nothing
ViewerSilent(v) ==
  /\ socket[v] = "OPEN" /\ v \in responsive
  /\ responsive' = responsive \ {v}
  /\ UNCHANGED <<clients, socket, hubNow, nextPingAt, got, outstanding,
                 survived, broadcasts, relayed, skipped, terminated, control,
                 pipeline, listener>>

\* the 'pong' handler
OnViewerPong(v) ==
  /\ v \in Registered /\ socket[v] = "OPEN"
  /\ v \in outstanding /\ v \in responsive
  /\ clients' = [clients EXCEPT ![v].lastPing = hubNow]
  /\ outstanding' = outstanding \ {v}
  /\ survived' = [survived EXCEPT ![v] = 0]
  /\ UNCHANGED <<socket, hubNow, nextPingAt, got, responsive, broadcasts,
                 relayed, skipped, terminated, control, pipeline, listener>>

\* now - client.lastPing.getTime() > timeout
StaleNever(v) == FALSE

Stale(v) == hubNow - clients[v].lastPing > ClientTimeoutMs

\* the callback of startPingInterval: stale viewers are terminated and
\* deleted, the others are pinged when their socket is open
PingRound ==
  /\ hubNow >= nextPingAt
  /\ nextPingAt' = nextPingAt + PingIntervalMs
  /\ LET stale == {v \in Registered : Stale(v)} IN
       /\ clients' = [x \in Registered \ stale |-> clients[x]]
       /\ socket' = [v \in Viewers |->
                       IF v \in stale THEN "CLOSED" ELSE socket[v]]
       /\ terminated' = terminated \cup stale
       /\ outstanding' =
            (outstanding \ stale)
              \cup {v \in Registered \ stale : socket[v] = "OPEN"}
       /\ survived' = [v \in Viewers |->
                         IF v \in Registered \ stale THEN survived[v] + 1
                                                      ELSE survived[v]]
  /\ UNCHANGED <<hubNow, got, responsive, broadcasts, relayed, skipped,
                 control, pipeline, listener>>

\* time passes, up to the moment the ping interval is due
HubTick ==
  /\ hubNow < nextPingAt /\ hubNow < MaxHubTicks * HubTickMs
  /\ hubNow' = hubNow + HubTickMs
  /\ UNCHANGED <<clients, socket, nextPingAt, got, outstanding, responsive,
                 survived, broadcasts, relayed, skipped, terminated, control,
                 pipeline, listener>>

InitHub ==
  /\ limit = [sds |-> 1, lw |-> 1, rc |-> 1]
  /\ donations = <<>>
  /\ InitRest

\* subscriptions and relaying
NextHub ==
  \/ \E v \in Viewers : HandleConnection(v)
  \/ \E v \in Viewers, c \in Channels : HandleSubscribe(v, {c})
  \/ \E v \in Viewers, c \in Channels : HandleUnsubscribe(v, {c})
  \/ \E ev \in HubEvents : RedisMessage(ev)
  \/ \E v \in Viewers : ViewerCloses(v)
  \/ \E v \in Viewers : OnViewerClose(v)

SpecHub == InitHub /\ [][NextHub]_vars

\* the ping check, with viewers that subscribe to everything
NextPing ==
  \/ \E v \in Viewers : HandleConnection(v)
  \/ \E v \in Viewers : HandleSubscribe(v, {"*"})
  \/ \E ev \in HubEvents : RedisMessage(ev)
  \/ \E v \in Viewers : OnViewerClose(v)
  \/ \E v \in Viewers : ViewerSilent(v)
  \/ \E v \in Viewers : OnViewerPong(v)
  \/ PingRound
  \/ HubTick

SpecPing == InitHub /\ [][NextPing]_vars

(* ---------------- properties ---------------- *)
Quiescent ==
  /\ \A p \in SdsProcs : sds[p].pc = "idle"
  /\ \A p \in LwProcs : lw[p].pc = "idle"
  /\ \A p \in RcProcs : rc[p].pc = "idle"

RowIds == DOMAIN donations

\* C1: the Donation table never holds two rows with the same transaction
\* hash, whatever the interleaving of the stream handler's and the ledger
\* watcher's find and create.
C1_OneRowPerTxHash == \A h \in Tx : Cardinality(RowsWith(h)) <= 1

\* a stream handler lost the race: its create for the hash was rejected
\* after the ledger watcher had been notified of the same hash
C1_Witness ==
  \E e \in EventIds :
    /\ sdsEvents[e].processingError = "P2002 txHash"
    /\ notified >= 1
    /\ Cardinality(RowsWith(EvTx(e))) = 1

RECURSIVE SumAmounts(_)
\* the summed amount of the rows whose ids are in S
SumAmounts(S) ==
  IF S = {} THEN 0
  ELSE LET i == CHOOSE x \in S : TRUE IN
         donations[i].amount + SumAmounts(S \ {i})

ConfirmedIds == {i \in RowIds : donations[i].status = "CONFIRMED"}

\* C2: however often the settlement of one transaction is notified to the
\* ledger watcher, the watcher increments the campaign aggregate for that
\* transaction at most once.
C2_NotificationAppliedOnce == \A h \in Tx : lwApplied[h] <= 1

\* the announcement of h1 and the one notification of its settlement are the
\* only deliveries so far, and both handlers have returned
C3_BothHandlersDone ==
  /\ delivered = 1 /\ notified = 1
  /\ sdsEvents["e1"].recorded /\ ledger["h2"] = "none"
  /\ \A p \in SdsProcs : sds[p].pc = "idle"
  /\ \A p \in LwProcs : lw[p].pc = "idle"

\* C3: when the announcement and the settlement notification of one hash
\* were handled concurrently and a reconciliation run begun after both
\* handlers returned has completed, the hash has exactly one row, the row is
\* CONFIRMED and the aggregate was incremented for it exactly once.
C3_RaceResolvesConfirmed ==
  [][\A p \in RcProcs :
       (C3_BothHandlersDone /\ rc[p].pc = "loop" /\ rc'[p].pc = "idle"
        /\ rc[p].afterHandlers)
       => /\ Cardinality(RowsWith("h1")) = 1
          /\ donations[FindUnique("h1")].status = "CONFIRMED"
          /\ lwApplied["h1"] + rcApplied["h1"] = 1]_vars

\* C4: a donation that a reconciliation run and the ledger watcher both read
\* as PENDING is applied to the campaign aggregate by only one of them: the
\* one that comes second leaves currentAmount and donorCount alone.
C4_NoDoubleCount ==
  [][/\ \A p \in LwProcs :
          (lw[p].pc = "totals" /\ lw[p].foundStatus = "PENDING"
           /\ rcApplied[lw[p].tx] >= 1 /\ lw'[p] # lw[p])
            => campaign' = campaign
     /\ \A p \in RcProcs :
          (rc[p].pc = "totals" /\ lwApplied[Current(p).txHash] >= 1
           /\ rc'[p] # rc[p])
            => campaign' = campaign]_vars

\* C5: with no handler in flight the campaign's currentAmount is the sum of
\* the amounts of its CONFIRMED donations.
C5_TotalIsSumOfConfirmed ==
  Quiescent => campaign.currentAmount = SumAmounts(ConfirmedIds)

\* C6: a donation that is CONFIRMED, FAILED or ORPHANED keeps its status in
\* every step.
C6_TerminalStatus ==
  [][\A i \in RowIds :
       donations[i].status \in Terminal
         => donations'[i].status = donations[i].status]_vars

\* C7: once the Aggregate Updater has marked the campaign COMPLETED, a
\* further confirmed donation (each donation applied once) does not execute
\* the 'reached target' write again, and the campaign stays COMPLETED.
C7_CompletionFiresOnce ==
  [][(/\ campaign.status = "COMPLETED" /\ completions >= 1
      /\ \A h \in Tx : lwApplied'[h] + rcApplied'[h] <= 1)
       => completions' = completions /\ campaign'.status = "COMPLETED"]_vars

\* C8: with no handler in flight every donor's donationCount is the number
\* of that donor's CONFIRMED donations and totalDonated is their summed amount.
C8_DonorCountsConfirmed ==
  Quiescent =>
    \A d \in Donors :
      LET mine == {i \in ConfirmedIds : donations[i].donor = d} IN
        /\ donor[d].donationCount = Cardinality(mine)
        /\ donor[d].totalDonated = SumAmounts(mine)

\* a stream event with identifier e is handed to handleEvent in this step
Delivery(e) ==
  /\ delivered' = delivered + 1
  /\ \/ sdsEvents'[e] # sdsEvents[e]
     \/ \E p \in SdsProcs : sds[p].pc = "idle" /\ sds'[p].pc # "idle"
                            /\ sds'[p].ev = e

\* C9: the delivery of a stream event whose identifier is already recorded
\* starts no donation handling: no handler goes on to handleDonationEvent and
\* the Donation table, the Donor table, the feeds, the leaderboards and the
\* published messages stay as they are.
C9_DuplicateEventDropped ==
  [][\A e \in EventIds :
       (sdsEvents[e].recorded /\ Delivery(e))
         => /\ sds' = sds
            /\ UNCHANGED <<donations, donor, feeds, leaderboard, published>>]_vars

\* an event identifier was delivered again while its donation was stored
C9_Witness ==
  \E e \in EventIds :
    /\ sdsEvents[e].retryCount >= 1
    /\ sdsEvents[e].processingError = "P2002 eventId"
    /\ RowsWith(EvTx(e)) # {}
    /\ feeds.global = 1 /\ published.donations = 1

\* the ids a run holds in its selection
SelectedIds(r) == {r.pendingDonations[k].id : k \in DOMAIN r.pendingDonations}

\* C10: a run selects exactly the PENDING donations older than the orphan
\* timeout, writes ORPHANED for a selected donation whose receipt query
\* returned nothing, and changes no donation outside its selection; so an
\* ORPHANED donation is in no later selection and a younger PENDING donation
\* is left alone.
C10_OrphanSweep ==
  [][\A p \in RcProcs :
       /\ (rc[p].pc = "idle" /\ rc'[p].pc # "idle")
            => SelectedIds(rc'[p]) =
                 {i \in RowIds : /\ donations[i].status = "PENDING"
                                 /\ now - donations[i].createdAt > OrphanTimeoutMs}
       /\ (rc[p].pc = "apply" /\ rc[p].receipt = "none" /\ rc'[p] # rc[p])
            => donations'[Current(p).id].status = "ORPHANED"
       /\ (rc'[p] # rc[p])
            => \A i \in RowIds :
                 donations'[i] # donations[i] => i \in SelectedIds(rc[p])]_vars

\* a later run, begun after the run that orphaned a donation had ended,
\* holds an empty selection
C10_Witness ==
  /\ limit.rc = 1 /\ sweeps = 2
  /\ rc[1].pc = "loop" /\ rc[1].pendingDonations = <<>>
  /\ \E i \in RowIds : donations[i].status = "ORPHANED"

\* C11: a reconciliation run that writes FAILED or ORPHANED for a donation
\* leaves the campaign row alone, publishes nothing and does not go on to
\* updateCampaignTotals; and a transaction the ledger has not settled
\* successfully has never been added to the campaign aggregate.
C11_NoAggregateForUnconfirmed ==
  [][/\ \A p \in RcProcs :
          (rc[p].pc = "apply" /\ rc[p].receipt # "success" /\ rc'[p] # rc[p])
            => /\ donations'[Current(p).id].status = StatusFor(rc[p].receipt)
               /\ campaign' = campaign /\ published' = published
               /\ rc'[p].pc # "totals"
     /\ \A h \in Tx :
          ledger'[h] # "success" => lwApplied'[h] + rcApplied'[h] = 0]_vars

\* the stream announced a transaction, the ledger failed another, and a run
\* has written ORPHANED and FAILED while the aggregate is untouched
C11_Witness ==
  /\ \E i \in RowIds : donations[i].status = "ORPHANED"
                         /\ ledger[donations[i].txHash] = "none"
  /\ \E i \in RowIds : donations[i].status = "FAILED"
  /\ \A p \in RcProcs : rc[p].pc = "idle"
  /\ campaign = NewCampaign /\ published.campaign_updates = 0

\* C12: when a reconciliation run over a store holding CONFIRMED rows the
\* Aggregate Updater never ran for has completed and no stream handler is in
\* flight, currentAmount is the sum of the CONFIRMED amounts.
C12_RunRestoresTotal ==
  [][\A p \in RcProcs :
       (rc[p].pc = "loop" /\ rc'[p].pc = "idle"
        /\ \A q \in SdsProcs : sds[q].pc = "idle")
         => campaign.currentAmount = SumAmounts(ConfirmedIds)]_vars

\* C13: when the one settlement notification of a transaction the stream
\* never announced has been handled, the donation is CONFIRMED and the
\* campaign and donor aggregates are those the stream-first path produces:
\* the donor upsert and one updateCampaignTotals applied to the initial rows.
C13_LedgerOnlyEquivalent ==
  \A h \in Tx :
    (Quiescent /\ delivered = 0 /\ sweeps = 0 /\ notified = 1
     /\ lwApplied[h] = 1)
      => /\ donations[FindUnique(h)].status = "CONFIRMED"
         /\ campaign.currentAmount =
              UpdateCampaignTotals(NewCampaign, TxAmount(h)).currentAmount
         /\ campaign.donorCount =
              UpdateCampaignTotals(NewCampaign, TxAmount(h)).donorCount
         /\ donor = DonorUpsertOn(NoDonors, h)

\* C20: a receipt query that throws changes no donation and leaves the run
\* at the next selected donation; and every run that starts selects each
\* donation that is PENDING and older than the timeout, the one whose query
\* threw in an earlier run included.
C20_RpcErrorKeepsPending ==
  [][\A p \in RcProcs :
       /\ (rpcErrors' = rpcErrors + 1 /\ rc'[p] # rc[p])
            => /\ donations' = donations
               /\ rc'[p] = NextItem(rc[p])
       /\ (rc[p].pc = "idle" /\ rc'[p].pc # "idle")
            => \A i \in RowIds :
                 Selected(donations[i]) => i \in SelectedIds(rc'[p])]_vars

\* the receipt query of the one stored donation threw in the first run, and
\* the second run holds that donation, still PENDING, in its selection
C20_Witness ==
  /\ limit.rc = 1 /\ sweeps = 2 /\ rpcErrors = 1
  /\ Len(donations) = 1 /\ donations[1].status = "PENDING"
  /\ rc[1].pc = "loop" /\ SelectedIds(rc[1]) = {1}

\* C14: reconnectAttempts never exceeds config.sds.maxReconnectAttempts, and
\* once it has reached the maximum no reconnect timeout is armed.
C14_ReconnectBounded ==
  /\ state.reconnectAttempts <= MaxReconnectAttempts
  /\ state.reconnectAttempts = MaxReconnectAttempts => ~reconnectTimer

C16_SilentPeerDetected ==
  (peer = "silent" /\ unanswered >= MaxUnanswered) => ~state.connected

\* C17: when a message of the broker is relayed, every registered viewer
\* with an open socket whose subscription set holds the message's channel or
\* the channel of its campaign is sent the event, and a viewer with an empty
\* subscription set is sent nothing.
C17_BroadcastReachesSubscribers ==
  [][broadcasts' = broadcasts + 1 =>
       \A v \in Registered :
         /\ (/\ socket[v] = "OPEN"
             /\ \/ relayed'.channel \in clients[v].subscribedStreams
                \/ CampaignChannel(relayed'.campaignId)
                     \in clients[v].subscribedStreams)
              => got'[v] > got[v]
         /\ clients[v].subscribedStreams = {} => got'[v] = got[v]]_vars

\* a message was relayed to a viewer subscribed to the campaign's channel
\* only, while a viewer without subscriptions was sent nothing
C17_Witness ==
  /\ broadcasts = 1
  /\ \E v, w \in Registered :
       /\ clients[v].subscribedStreams = {"campaign:c1"} /\ got[v] >= 1
       /\ clients[w].subscribedStreams = {} /\ got[w] = 0
       /\ socket[v] = "OPEN" /\ socket[w] = "OPEN"

\* C18: a registered viewer has passed at most three ping rounds since its
\* last pong (the next round removes it); a viewer that is not registered is
\* sent no event; and the ping check removes only a viewer that has a ping
\* it did not answer.
C18_SilentViewerRemoved ==
  [][\A v \in Viewers :
       /\ v \in DOMAIN clients' => survived'[v] <= 3
       /\ v \notin Registered => got'[v] = got[v]
       /\ (v \in terminated' /\ v \notin terminated)
            => v \in Registered /\ v \in outstanding]_vars

\* the ping check has terminated a silent viewer, a message relayed after
\* that passed it by, and a viewer that answers its pings is still
\* registered and was sent the message
C18_Witness ==
  /\ broadcasts = 1
  /\ \E v \in terminated \cap skipped :
       /\ v \notin responsive /\ v \notin Registered /\ got[v] = 0
       /\ \E w \in Registered :
            /\ w \in responsive /\ got[w] >= 1
            /\ clients[w].lastPing >= ClientTimeoutMs

\* C19: when a message is relayed while some registered viewer's socket is
\* not open, that viewer is sent nothing and every registered viewer with an
\* open socket that the broadcast matches is still sent the event.
C19_ClosedConnectionSkipped ==
  [][(/\ broadcasts' = broadcasts + 1
      /\ \E u \in Registered : socket[u] # "OPEN")
       => \A v \in Registered :
            IF socket[v] # "OPEN"
              THEN got'[v] = got[v]
              ELSE v \in Matching(relayed') => got'[v] > got[v]]_vars

\* a message was relayed while a subscribed viewer's socket was closing:
\* that viewer was sent nothing and another viewer was sent the event
C19_Witness ==
  /\ broadcasts = 1
  /\ \E v \in skipped \cap Registered :
       /\ socket[v] = "CLOSING" /\ "*" \in clients[v].subscribedStreams
       /\ got[v] = 0
       /\ \E w \in Registered \ {v} : got[w] >= 1

\* C21: when reconciliation runs overlap in time, the campaign aggregate is
\* incremented by the reconciler at most once for any one transaction hash
\* (and with it the row is confirmed by at most one of the runs).
C21_OverlappingRunsApplyOnce == \A h \in Tx : rcApplied[h] <= 1

\* every donation was applied to the campaign aggregate exactly once if it
\* is CONFIRMED and never otherwise
AppliedOncePerConfirmed ==
  \A h \in Tx :
    lwApplied[h] + rcApplied[h] =
      (IF \E i \in ConfirmedIds : donations[i].txHash = h THEN 1 ELSE 0)

\* C26: with no handler in flight and every confirmed donation applied once,
\* the campaign's donorCount is the number of distinct donor addresses among
\* its CONFIRMED donations.
C26_DonorCountDistinct ==
  (Quiescent /\ AppliedOncePerConfirmed) =>
    campaign.donorCount =
      Cardinality({donations[i].donor : i \in ConfirmedIds})

\* C27: with no handler in flight every donor's score on the global and on
\* the campaign leaderboard is the summed amount of that donor's CONFIRMED
\* donations.
C27_LeaderboardIsConfirmedTotal ==
  Quiescent =>
    \A d \in Donors :
      LET mine == {i \in ConfirmedIds : donations[i].donor = d} IN
        /\ leaderboard.global[d] = SumAmounts(mine)
        /\ leaderboard.campaign[d] = SumAmounts(mine)

\* C29: when a message published on the 'donations' channel is relayed, no
\* viewer is sent more than one 'event' message for it.
C29_OneMessagePerViewer ==
  [][(broadcasts' = broadcasts + 1 /\ relayed'.channel = "donations")
       => \A v \in Viewers : got'[v] <= got[v] + 1]_vars

\* C24: once the start-up sequence has finished, a connected listener has
\* sent a subscribe request on its socket for the stream of every ACTIVE
\* campaign, also when the connection was made by a reconnect.
C24_ConnectedHasRequestedActive ==
  (state.connected /\ ws = "OPEN" /\ startup \in {"done", "failed"})
    => ActiveStreams \subseteq requests.subscribe

\* C28: after disconnect() no reconnect timer is armed and the listener has
\* no socket, whenever the dropped socket's 'close' is delivered.
C28_StaysDisconnected ==
  shutdown => (~reconnectTimer /\ ws = "null")

\* C30: the subscribe requests an 'open' handler sends leave out every stream
\* whose latest request was an unsubscribeFromStream made while the socket
\* was not open.
C30_OfflineUnsubscribeKept ==
  [][opens' = opens + 1 => offline \cap requests'.subscribe = {}]_vars

\* C22: whenever an increment brings the campaign's currentAmount to or over
\* its targetAmount, the campaign is COMPLETED after that step, also when a
\* publish or a cache invalidation fails.
C22_CompletedDespiteCacheFailure ==
  [][(campaign'.currentAmount > campaign.currentAmount
      /\ ReachedTarget(campaign'))
       => campaign'.status = "COMPLETED"]_vars

\* the announcement a handler holds fails validation or names a campaign
\* the store does not have
Unacceptable(p) == sds[p].pc = "find" /\ sds[p].ev \in BadEventIds

\* C23: the step that handles an announcement whose payload fails schema
\* validation or whose campaign is unknown ends the handler and changes no
\* Donation row, no campaign or donor aggregate, no feed, no leaderboard and
\* no published message, and leaves the listener's connection as it was.
C23_UnacceptableDropped ==
  [][\A p \in SdsProcs :
       (Unacceptable(p) /\ sds'[p] # sds[p])
         => /\ sds'[p].pc = "idle"
            /\ donations' = donations /\ campaign' = campaign
            /\ donor' = donor /\ feeds' = feeds
            /\ leaderboard' = leaderboard /\ published' = published
            /\ ws' = ws /\ state' = state]_vars

\* both kinds of unacceptable announcement were handled and dropped, and an
\* acceptable announcement was processed in full
C23_Witness ==
  /\ sdsEvents["e4"].processed /\ sdsEvents["e5"].processed
  /\ \E e \in EventIds : sdsEvents[e].processed
  /\ Len(donations) = 1 /\ published.donations = 1 /\ feeds.global = 1
  /\ \A p \in SdsProcs : sds[p].pc = "idle"

\* the records a step changed
ChangedWithdrawals == {i \in WithdrawalIds : withdrawals'[i] # withdrawals[i]}

\* C25: a withdrawal notification changes only records of the notified
\* campaign with the same recipient, the same amount and PROCESSING status,
\* it sets them COMPLETED, and it changes at most one record.
C25_OneMatchingWithdrawalCompleted ==
  [][notice'.count = notice.count + 1 =>
       /\ \A i \in ChangedWithdrawals :
            /\ WithdrawalMatches(withdrawals[i], notice'.onChainId,
                                 notice'.to, notice'.amount)
            /\ withdrawals'[i] = [withdrawals[i] EXCEPT !.status = "COMPLETED"]
       /\ Cardinality(ChangedWithdrawals) <= 1]_vars

====
